---- MODULE Spec2Model ----
(***************************************************************************)
(* Model of src/basic/os-util.c: resolution of the os-release and          *)
(* extension-release descriptor files below a root directory.              *)
(*                                                                         *)
(* One call of open_extension_release() or fopen_extension_release() is    *)
(* followed statement by statement.  The file system below the root is     *)
(* fixed during the call; system calls may fail, and every system call     *)
(* made is appended to `trace` together with its result.                   *)
(***************************************************************************)
EXTENDS Integers, Sequences, FiniteSets, TLC

(* ------------------------------------------------------------------ *)
(* Bounds of the model                                                  *)
(* ------------------------------------------------------------------ *)

\* Largest number of entries in /usr/lib/extension-release.d/.
MaxEntries == 2

(* ------------------------------------------------------------------ *)
(* errno values                                                         *)
(* ------------------------------------------------------------------ *)

ENOENT == 2
EBADF == 9
ENOMEM == 12
EINVAL == 22
ENOTUNIQ == 76

\* errno values the code never names but the system calls it makes can
\* produce.
SysErrno == [EIO |-> 5, EACCES |-> 13, EMFILE |-> 24, ELOOP |-> 40, ENODATA |-> 61]

(* ------------------------------------------------------------------ *)
(* Strings: a C string is the tuple of its characters.                  *)
(* ------------------------------------------------------------------ *)

\* The null pointer: a value that is no string over the characters used.
NULL == <<"NULL">>

\* "\t" stands for the ASCII control characters, "0xFF" for a byte that is
\* no valid UTF-8.
ControlChars == {"\t"}
InvalidUtf8Bytes == {"0xFF"}

\* NAME_MAX of the platform.
NAME_MAX == 255

\* startswith(s, prefix): the rest of s after prefix, or NULL.
startswith(s, prefix) ==
    IF Len(s) >= Len(prefix) /\ SubSeq(s, 1, Len(prefix)) = prefix
    THEN SubSeq(s, Len(prefix) + 1, Len(s))
    ELSE NULL

\* filename_is_valid(): non-empty, not "." or "..", no "/", at most NAME_MAX.
filename_is_valid(s) ==
    /\ s # NULL
    /\ Len(s) > 0
    /\ s # <<".">>
    /\ s # <<".", ".">>
    /\ \A i \in 1..Len(s) : s[i] # "/"
    /\ Len(s) <= NAME_MAX

\* string_has_cc(s, NULL): s holds an ASCII control character.
string_has_cc(s) == \E i \in 1..Len(s) : s[i] \in ControlChars

\* utf8_is_valid(s)
utf8_is_valid(s) == \A i \in 1..Len(s) : s[i] \notin InvalidUtf8Bytes

\* image_name_is_valid without lines 26-27: control characters pass.
image_name_is_valid_NoCcRule(s) ==
    /\ filename_is_valid(s)
    /\ utf8_is_valid(s)
    /\ startswith(s, <<".", "#">>) = NULL

\* A mutant of image_name_is_valid: the ".#" rule is dropped.
image_name_is_valid_NoTmpRule(s) ==
    /\ filename_is_valid(s)
    /\ ~string_has_cc(s)
    /\ utf8_is_valid(s)

image_name_is_valid(s) ==
    IF ~filename_is_valid(s) THEN FALSE
    ELSE IF string_has_cc(s) THEN FALSE
    ELSE IF ~utf8_is_valid(s) THEN FALSE
    ELSE IF startswith(s, <<".", "#">>) # NULL THEN FALSE
    ELSE TRUE

(* ------------------------------------------------------------------ *)
(* Paths                                                                *)
(* ------------------------------------------------------------------ *)

\* "extension-release."
ExtensionReleasePrefix ==
    <<"e","x","t","e","n","s","i","o","n","-","r","e","l","e","a","s","e",".">>

\* "/usr/lib/extension-release.d/"
ExtensionReleaseDir ==
    <<"/","u","s","r","/","l","i","b","/">> \o
    <<"e","x","t","e","n","s","i","o","n","-","r","e","l","e","a","s","e",".","d","/">>

\* "/etc/os-release", "/usr/lib/os-release"
EtcOsRelease == <<"/","e","t","c","/","o","s","-","r","e","l","e","a","s","e">>
UsrLibOsRelease ==
    <<"/","u","s","r","/","l","i","b","/","o","s","-","r","e","l","e","a","s","e">>
OsReleasePaths == <<EtcOsRelease, UsrLibOsRelease>>

\* strjoina("/usr/lib/extension-release.d/extension-release.", extension)
extension_full_path(extension) ==
    ExtensionReleaseDir \o ExtensionReleasePrefix \o extension

\* path_join(extension_release_dir_path, de->d_name); the chased directory
\* path carries no trailing slash.
path_join(dir, name) ==
    IF dir[Len(dir)] = "/" THEN dir \o name ELSE dir \o <<"/">> \o name

(* ------------------------------------------------------------------ *)
(* The file system below the root                                       *)
(* ------------------------------------------------------------------ *)

\* The root directory the calls are given.
Root == <<"/","r">>

\* The value of $SYSTEMD_OS_RELEASE when it is set.
OverridePath == <<"/","o">>

\* What fgetxattr() finds for user.extension-release.strict on a file: no
\* such attribute, a read error, or the attribute's text.
XattrStates == {"ENODATA", "EIO", "1", "0", "maybe"}

\* Names of directory entries: two valid extension-release files, one whose
\* suffix is a temporary-file name, and one without the prefix.
ValidEntryNames == {ExtensionReleasePrefix \o <<"a">>, ExtensionReleasePrefix \o <<"b">>}
OtherEntryNames == {ExtensionReleasePrefix \o <<".","#","a">>, <<"R","E","A","D","M","E">>}

\* A directory entry: its name, the d_type readdir() reports, whether the
\* object is a regular file (what fstat() says once it is opened), and its
\* strict attribute.  Objects that are not regular files (directories,
\* sockets) carry no attribute.
DirEntries ==
    { [d_name |-> n, d_type |-> "DT_REG", regular |-> TRUE, xattr |-> x] :
        n \in ValidEntryNames, x \in XattrStates }
    \cup { [d_name |-> n, d_type |-> "DT_UNKNOWN", regular |-> TRUE, xattr |-> "0"] :
        n \in ValidEntryNames }
    \cup { [d_name |-> n, d_type |-> t, regular |-> FALSE, xattr |-> "ENODATA"] :
        n \in ValidEntryNames, t \in {"DT_UNKNOWN", "DT_DIR"} }
    \cup { [d_name |-> n, d_type |-> "DT_REG", regular |-> TRUE, xattr |-> "0"] :
        n \in OtherEntryNames }

RECURSIVE SeqsUpTo(_, _)
\* The sequences over S of length at most n.
SeqsUpTo(S, n) ==
    IF n = 0 THEN {<<>>}
    ELSE LET shorter == SeqsUpTo(S, n - 1)
         IN  shorter \cup { Append(s, e) : s \in shorter, e \in S }

\* A directory lists every name once; the order of a listing is arbitrary.
DirListings ==
    { d \in SeqsUpTo(DirEntries, MaxEntries) :
        \A i, j \in 1..Len(d) : i # j => d[i].d_name # d[j].d_name }

\* The file systems of the model.  The extension lookup reads only the
\* extension-release directory and the base lookup only the os-release
\* files, so the two are varied one at a time.
FileSystems ==
    { [dir |-> d, files |-> {}, env |-> NULL] : d \in DirListings }
    \cup { [dir |-> <<>>, files |-> f, env |-> e] :
             f \in SUBSET {EtcOsRelease, UsrLibOsRelease, OverridePath},
             e \in {NULL, OverridePath} }

(* ------------------------------------------------------------------ *)
(* System calls                                                         *)
(* ------------------------------------------------------------------ *)

\* Errors a path resolution can meet besides ENOENT.
ChaseFaults == {-SysErrno.EACCES}
\* Errors of opendir, openat, readdir and of reopening a descriptor.
OpenFaults == {-SysErrno.EMFILE}
ReaddirFaults == {-SysErrno.EIO}

\* Whether `path` (as chase_symlinks() is given it) names an existing object.
PathExists(filesys, path) ==
    \/ path \in filesys.files
    \/ \E i \in 1..Len(filesys.dir) :
          path = ExtensionReleaseDir \o filesys.dir[i].d_name

\* chase_symlinks(path, root, flags, ...): the results it can give.  A
\* successful resolution returns 0 or a positive number.
chase_symlinks(filesys, path) ==
    (IF PathExists(filesys, path) THEN {0, 1} ELSE {-ENOENT}) \cup ChaseFaults

\* The resolved path: below the root with CHASE_PREFIX_ROOT, the path
\* itself without.
ChasedPath(path, prefix_root) == IF prefix_root THEN Root \o path ELSE path

\* parse_boolean()
parse_boolean(v) ==
    IF v \in {"1", "yes", "y", "true", "t", "on"} THEN 1
    ELSE IF v \in {"0", "no", "n", "false", "f", "off"} THEN 0
    ELSE -EINVAL

\* fgetxattr_malloc(fd, "user.extension-release.strict", &value): the
\* return value.
fgetxattr_malloc(x) ==
    IF x = "ENODATA" THEN -SysErrno.ENODATA
    ELSE IF x = "EIO" THEN -SysErrno.EIO
    ELSE 1

\* A mutant of the attribute gate: a file without a readable, parseable
\* attribute is let through.
extension_release_strict_xattr_value_Lenient(x) ==
    IF fgetxattr_malloc(x) < 0 THEN 0
    ELSE IF parse_boolean(x) < 0 THEN 0
    ELSE IF parse_boolean(x) > 0 THEN 1
    ELSE 0

\* A mutant of the attribute gate: strict=true is let through.
extension_release_strict_xattr_value_TrueOk(x) ==
    IF fgetxattr_malloc(x) < 0 THEN fgetxattr_malloc(x)
    ELSE IF parse_boolean(x) < 0 THEN parse_boolean(x)
    ELSE 0

\* extension_release_strict_xattr_value(): log_debug_errno(r, ...) returns
\* the negative errno it is given.
extension_release_strict_xattr_value(x) ==
    LET r1 == fgetxattr_malloc(x)
    IN  IF r1 < 0 THEN r1
        ELSE LET r2 == parse_boolean(x)
             IN  IF r2 < 0 THEN r2
                 ELSE IF r2 > 0 THEN 1
                 ELSE 0

(* ------------------------------------------------------------------ *)
(* State                                                                *)
(* ------------------------------------------------------------------ *)

VARIABLES
    fs,             \* the file system and environment, fixed during the call
    args,           \* the arguments of the call in progress
    pc,             \* the line the call has reached
    r,              \* open_extension_release(): int r
    fd,             \* open_extension_release(): int fd (0: indeterminate)
    q,              \* open_extension_release(): char *q
    dirh,           \* extension_release_dir (0: not open)
    pos,            \* index of the next directory entry / os-release path
    fr,             \* fopen_extension_release(): int r
    p,              \* fopen_extension_release(): char *p
    ffd,            \* fopen_extension_release(): int fd
    caller_path,    \* the caller's variable behind ret_path
    caller_handle,  \* the caller's variable behind ret_fd / ret_file
    result,         \* the value returned to the caller
    fds,            \* the open descriptors of the process
    nextfd,         \* descriptors are numbered in the order they are opened
    trace           \* the system calls made so far, and failed allocations

vars == <<fs, args, pc, r, fd, q, dirh, pos, fr, p, ffd,
          caller_path, caller_handle, result, fds, nextfd, trace>>

\* What the caller's output variables hold before the call.
UnsetPath == <<"UNSET">>
UnsetHandle == [unset |-> TRUE, stream |-> FALSE, fd |-> 0]
\* An int descriptor and a FILE* over a descriptor, as the caller sees them.
FdHandle(id) == [unset |-> FALSE, stream |-> FALSE, fd |-> id]
FileHandle(id) == [unset |-> FALSE, stream |-> TRUE, fd |-> id]

NoArgs == [api |-> "none", extension |-> NULL, relax |-> FALSE,
           want_path |-> FALSE, want_handle |-> FALSE]
NoResult == "none"

\* The extension names calls are made with: none, the name of a file the
\* directory may hold, a name it never holds, and an invalid name.
Extensions == {NULL, <<"a">>, <<"c">>, <<".","#","a">>}

\* fopen_extension_release() with ret_file set calls open_extension_release()
\* on its own locals p and fd; otherwise the caller's pointers are the ones
\* open_extension_release() is given.
\* The call a reaches open_extension_release() through line 237 of
\* fopen_extension_release(); load_extension_release_pairs() passes &p and &f.
FopenWrapped(a) == a.api \in {"fopen", "load_pairs"} /\ a.want_handle
ViaFopen == FopenWrapped(args)
\* open_extension_release(): ret_path != NULL, ret_fd != NULL
ret_path == args.want_path
ret_fd == IF args.api \in {"fopen", "load_pairs"} THEN ViaFopen ELSE args.want_handle

Init ==
    /\ fs \in FileSystems
    /\ args = NoArgs
    /\ pc = "idle"
    /\ r = 0
    /\ fd = 0
    /\ q = NULL
    /\ dirh = 0
    /\ pos = 0
    /\ fr = 0
    /\ p = NULL
    /\ ffd = -EBADF
    /\ caller_path = UnsetPath
    /\ caller_handle = UnsetHandle
    /\ result = NoResult
    /\ fds = {}
    /\ nextfd = 3
    /\ trace = <<>>

(* ------------------------------------------------------------------ *)
(* Descriptors and the trace                                            *)
(* ------------------------------------------------------------------ *)

Sys(op, arg, id, res) == [op |-> op, arg |-> arg, fd |-> id, res |-> res]

\* The descriptor table after opening `file` with `mode` as descriptor id.
Opened(table, id, file, mode) == table \cup {[id |-> id, file |-> file, mode |-> mode]}
\* The descriptor table after close(id).
Closed(table, id) == {d \in table : d.id # id}

\* The file a descriptor refers to.
FileOf(table, id) == (CHOOSE d \in table : d.id = id).file

\* open_extension_release(), called with the arguments a, returns v: to
\* fopen_extension_release() line 237, to path_is_extension_tree() line 52,
\* or to the caller.
ReturnTo(a, v) ==
    IF FopenWrapped(a)
    THEN pc' = "fopen_238" /\ fr' = v /\ result' = result
    ELSE IF a.api = "is_tree"
    THEN pc' = "tree_53" /\ fr' = v /\ result' = result
    ELSE pc' = "done" /\ fr' = fr /\ result' = v

ReturnFromOpen(v) == ReturnTo(args, v)

(* ------------------------------------------------------------------ *)
(* The call                                                             *)
(* ------------------------------------------------------------------ *)

\* Lines 103-108 without the validation of the name.
ExtensionRejected_Never(extension) == FALSE

\* Lines 103-108: a name is given and is no valid image name.
ExtensionRejected(extension) == ~image_name_is_valid(extension)

\* open_extension_release() is entered with the arguments a, directly or
\* through fopen_extension_release() (lines 234-237).  Lines 103-108 and
\* 193-194: the extension name is validated before anything else; without a
\* name the environment decides the branch.
Enter(a) ==
    /\ args' = a
    /\ IF a.extension # NULL
       THEN IF ExtensionRejected(a.extension)
            THEN pos' = pos /\ ReturnTo(a, -EINVAL)
            ELSE pc' = "110" /\ UNCHANGED <<fr, result, pos>>
       ELSE /\ pc' = IF fs.env # NULL THEN "195" ELSE "199"
            /\ pos' = 1
            /\ UNCHANGED <<fr, result>>
    /\ UNCHANGED <<fs, r, fd, q, dirh, p, ffd,
                   caller_path, caller_handle, fds, nextfd>>

\* open_extension_release() or fopen_extension_release() is called.
Call ==
    /\ pc = "idle"
    /\ \E api \in {"open", "fopen"}, extension \in Extensions,
          relax \in BOOLEAN, wp \in BOOLEAN, wh \in BOOLEAN :
          Enter([api |-> api, extension |-> extension, relax |-> relax,
                 want_path |-> wp, want_handle |-> wh])
    /\ UNCHANGED trace

\* r = chase_symlinks(path, root, flags, ret_path ? &q : NULL,
\*                    ret_fd ? &fd : NULL) with result res.
Chase(path, prefix_root, res) ==
    LET resolved == ChasedPath(path, prefix_root)
        opens == res >= 0 /\ ret_fd
    IN  /\ r' = res
        /\ q' = IF res >= 0 /\ ret_path THEN resolved ELSE q
        /\ fd' = IF opens THEN nextfd ELSE fd
        /\ fds' = IF opens THEN Opened(fds, nextfd, resolved, "O_PATH") ELSE fds
        /\ nextfd' = IF opens THEN nextfd + 1 ELSE nextfd
        /\ trace' = Append(trace, Sys("chase", path, IF opens THEN nextfd ELSE 0, res))

\* Line 121 entering the scan on every error.
AfterExact_AnyError(res) == IF res < 0 THEN "125" ELSE "207"

\* Line 121 taking every non-zero result for a failure.
AfterExact_NonZero(res) == IF res # 0 THEN "125" ELSE "207"

\* Line 121: only -ENOENT leads into the fallback scan.
AfterExact(res) == IF res = -ENOENT THEN "125" ELSE "207"

\* Lines 110-121: the exact file is looked up.
ChaseExact ==
    /\ pc = "110"
    /\ \E res \in chase_symlinks(fs, extension_full_path(args.extension)) :
          /\ Chase(extension_full_path(args.extension), TRUE, res)
          /\ pc' = AfterExact(res)
    /\ UNCHANGED <<fs, args, dirh, pos, fr, p, ffd, caller_path, caller_handle, result>>

\* extension_release_dir_path as chase_symlinks_and_opendir() returns it.
extension_release_dir_path ==
    ChasedPath(SubSeq(ExtensionReleaseDir, 1, Len(ExtensionReleaseDir) - 1), TRUE)

\* The results chase_symlinks_and_opendir() can give.
chase_symlinks_and_opendir(filesys) ==
    {0} \cup OpenFaults \cup (IF filesys.dir = <<>> THEN {-ENOENT} ELSE {})

\* Line 130 with the sign of the errno forgotten.
ScanInitialR_Positive == ENOENT

\* Line 130: the scan starts from "nothing found".
ScanInitialR == -ENOENT

\* Lines 125-130: the directory is opened.
OpenDir ==
    /\ pc = "125"
    /\ \E res \in chase_symlinks_and_opendir(fs) :
          /\ trace' = Append(trace, Sys("opendir", ExtensionReleaseDir,
                                        IF res >= 0 THEN nextfd ELSE 0, res))
          /\ IF res < 0
             THEN /\ r' = res
                  /\ ReturnFromOpen(res)
                  /\ UNCHANGED <<dirh, pos, fds, nextfd>>
             ELSE /\ r' = ScanInitialR
                  /\ dirh' = nextfd
                  /\ fds' = Opened(fds, nextfd, extension_release_dir_path, "DIR")
                  /\ nextfd' = nextfd + 1
                  /\ pos' = 1
                  /\ pc' = "131"
                  /\ UNCHANGED <<fr, result>>
    /\ UNCHANGED <<fs, args, fd, q, p, ffd, caller_path, caller_handle>>

(* ------------------------------------------------------------------ *)
(* The fallback scan, lines 131-190                                     *)
(* ------------------------------------------------------------------ *)

\* Line 134: entries that are neither regular nor of unknown type are
\* passed over.
DTypeSkipped(d_type) == d_type \notin {"DT_REG", "DT_UNKNOWN"}

\* Lines 164-170 with relax_extension_release_check ignored.
GateSkips_IgnoresRelax(relax, xattr) ==
    extension_release_strict_xattr_value(xattr) # 0

\* Lines 164-170: unless the check is relaxed, a file is passed over when
\* the attribute function returns anything but 0.
GateSkips(relax, xattr) ==
    ~relax /\ extension_release_strict_xattr_value(xattr) # 0

\* Line 175 without the uniqueness check: a later candidate replaces the
\* earlier one.
AlreadyFound_Never(rr) == FALSE

\* Line 175: a candidate was found before.
AlreadyFound(rr) == rr = 0

\* Lines 147-156 treating a failed openat() like any other unusable entry.
OpenFailureIsFatal_Skip(op) == FALSE

\* Lines 147-156: a failed openat() of a validly named entry is returned
\* (`return log_debug_errno(errno, ...)`), it is not skipped.
OpenFailureIsFatal(op) == TRUE

\* The state of the call after one pass through the loop body, for the
\* result rd of readdir(), op of openat() and alloc of path_join().
ScanOutcome(rd, op, alloc) ==
    LET here == [returns |-> FALSE, ret |-> 0, pc |-> "131", r |-> r, fd |-> fd,
                 q |-> q, fds |-> fds, nextfd |-> nextfd, trace |-> trace,
                 pos |-> pos, dirh |-> dirh]
        \* _cleanup_closedir_ when the block is left
        closedir(o) == [o EXCEPT !.fds = Closed(o.fds, dirh),
                                 !.trace = Append(o.trace, Sys("closedir", <<>>, dirh, 0)),
                                 !.dirh = 0]
        \* _cleanup_close_ of extension_release_fd when the loop body is left
        close_erfd(o, id) == [o EXCEPT !.fds = Closed(o.fds, id),
                                       !.trace = Append(o.trace, Sys("close", <<>>, id, 0))]
        continue(o) == [o EXCEPT !.pos = pos + 1]
        return(o, v) == [o EXCEPT !.returns = TRUE, !.ret = v]
    IN
    IF rd < 0
    THEN \* FOREACH_DIRENT(..., return -errno)
         return(closedir([here EXCEPT !.trace = Append(trace, Sys("readdir", <<>>, dirh, rd))]), rd)
    ELSE IF pos > Len(fs.dir)
    THEN \* end of the directory: on to line 207
         [closedir(here) EXCEPT !.pc = "207"]
    ELSE
    LET de == fs.dir[pos]
        image_name == startswith(de.d_name, ExtensionReleasePrefix)
        erfd == nextfd
        file == path_join(extension_release_dir_path, de.d_name)
    IN
    IF DTypeSkipped(de.d_type) THEN continue(here)
    ELSE IF image_name = NULL THEN continue(here)
    ELSE IF ~image_name_is_valid(image_name) THEN continue(here)
    ELSE IF op < 0
    THEN \* lines 152-156
         LET failed == [here EXCEPT !.trace = Append(trace, Sys("openat", de.d_name, 0, op))]
         IN  IF OpenFailureIsFatal(op) THEN return(closedir(failed), op)
             ELSE continue(failed)
    ELSE
    LET opened == [here EXCEPT !.fds = Opened(fds, erfd, file, "O_PATH"),
                               !.nextfd = nextfd + 1,
                               !.trace = Append(trace, Sys("openat", de.d_name, erfd, 0))]
    IN
    IF ~de.regular THEN continue(close_erfd(opened, erfd))
    ELSE
    LET k == extension_release_strict_xattr_value(de.xattr)
        gated == IF args.relax THEN opened
                 ELSE [opened EXCEPT !.trace = Append(opened.trace, Sys("fgetxattr", de.d_name, erfd, k))]
    IN
    IF GateSkips(args.relax, de.xattr) THEN continue(close_erfd(gated, erfd))
    ELSE IF AlreadyFound(r)
    THEN \* lines 175-178: break
         [closedir(close_erfd([gated EXCEPT !.r = -ENOTUNIQ], erfd)) EXCEPT !.pc = "207"]
    ELSE
    LET found == [gated EXCEPT !.r = 0]
        \* line 183: fd = TAKE_FD(extension_release_fd)
        taken == IF ret_fd THEN [found EXCEPT !.fd = erfd] ELSE found
        \* the end of the loop body closes the descriptor unless it was taken
        left == IF ret_fd THEN taken ELSE close_erfd(taken, erfd)
    IN
    IF ret_path /\ ~alloc
    THEN \* lines 187-188
         return(closedir([left EXCEPT !.trace = Append(left.trace, Sys("path_join", de.d_name, 0, -ENOMEM))]), -ENOMEM)
    ELSE continue([left EXCEPT !.q = IF ret_path THEN file ELSE q])

\* One pass through FOREACH_DIRENT.
ForeachDirent ==
    /\ pc = "131"
    /\ \E rd \in {0} \cup ReaddirFaults, op \in {0} \cup OpenFaults, alloc \in BOOLEAN :
          LET o == ScanOutcome(rd, op, alloc)
          IN  /\ r' = o.r
              /\ fd' = o.fd
              /\ q' = o.q
              /\ fds' = o.fds
              /\ nextfd' = o.nextfd
              /\ trace' = o.trace
              /\ pos' = o.pos
              /\ dirh' = o.dirh
              /\ IF o.returns
                 THEN ReturnFromOpen(o.ret)
                 ELSE pc' = o.pc /\ UNCHANGED <<fr, result>>
    /\ UNCHANGED <<fs, args, p, ffd, caller_path, caller_handle>>

(* ------------------------------------------------------------------ *)
(* The base descriptor, lines 193-205                                   *)
(* ------------------------------------------------------------------ *)

\* Lines 194-198 falling back to the os-release paths when the override is
\* not found.
AfterOverride_Fallback(res) == IF res = -ENOENT THEN "199" ELSE "207"

\* Lines 194-198: the if/else leaves no way from the override to the loop.
AfterOverride(res) == "207"

\* Lines 194-197: $SYSTEMD_OS_RELEASE is resolved, without CHASE_PREFIX_ROOT.
ChaseOverride ==
    /\ pc = "195"
    /\ \E res \in chase_symlinks(fs, fs.env) :
          /\ Chase(fs.env, FALSE, res)
          /\ pc' = AfterOverride(res)
    /\ UNCHANGED <<fs, args, dirh, pos, fr, p, ffd, caller_path, caller_handle, result>>

\* Line 203 leaving the loop on every error.
OsReleaseLoopEnds_OnAnyError(res) == res >= 0

\* Lines 203-204: the loop over the os-release paths ends with the first
\* result that is not -ENOENT.
OsReleaseLoopEnds(res) == res # -ENOENT

\* Lines 199-205: one pass through FOREACH_STRING.
ChaseOsRelease ==
    /\ pc = "199"
    /\ \E res \in chase_symlinks(fs, OsReleasePaths[pos]) :
          /\ Chase(OsReleasePaths[pos], TRUE, res)
          /\ IF OsReleaseLoopEnds(res) \/ pos = Len(OsReleasePaths)
             THEN pc' = "207" /\ pos' = pos
             ELSE pc' = "199" /\ pos' = pos + 1
    /\ UNCHANGED <<fs, args, dirh, fr, p, ffd, caller_path, caller_handle, result>>

(* ------------------------------------------------------------------ *)
(* Lines 207-225: the result is handed to the caller                    *)
(* ------------------------------------------------------------------ *)

\* Lines 207-208.
CheckResult ==
    /\ pc = "207"
    /\ IF r < 0
       THEN ReturnFromOpen(r)
       ELSE pc' = (IF ret_fd THEN "210" ELSE "222") /\ UNCHANGED <<fr, result>>
    /\ UNCHANGED <<fs, args, r, fd, q, dirh, pos, p, ffd,
                   caller_path, caller_handle, fds, nextfd, trace>>

\* Line 215 left out: the O_PATH descriptor stays open.
AfterSafeClose_Leak(table, id) == table

\* Line 215: safe_close(fd).
AfterSafeClose(table, id) == Closed(table, id)

\* Line 219 writing the descriptor before line 216 looks at it.
WritesRetFd_Always(real_fd) == TRUE

\* Lines 216-219: *ret_fd is written only when the reopen succeeded.
WritesRetFd(real_fd) == real_fd >= 0

\* Lines 210-220: the O_PATH descriptor is reopened for reading and closed.
Reopen ==
    /\ pc = "210"
    /\ \E res \in {0} \cup OpenFaults :
          LET real_fd == IF res < 0 THEN res ELSE nextfd
              reopened == IF res < 0 THEN fds
                          ELSE Opened(fds, nextfd, FileOf(fds, fd), "O_RDONLY")
          IN  /\ fds' = AfterSafeClose(reopened, fd)
              /\ nextfd' = IF res < 0 THEN nextfd ELSE nextfd + 1
              /\ trace' = trace \o <<Sys("reopen", <<>>, fd, real_fd),
                                     Sys("close", <<>>, fd, 0)>>
              /\ IF WritesRetFd(real_fd)
                 THEN IF ViaFopen
                      THEN ffd' = real_fd /\ caller_handle' = caller_handle
                      ELSE caller_handle' = FdHandle(real_fd) /\ ffd' = ffd
                 ELSE UNCHANGED <<ffd, caller_handle>>
              /\ IF real_fd < 0
                 THEN ReturnFromOpen(real_fd)
                 ELSE pc' = "222" /\ UNCHANGED <<fr, result>>
    /\ UNCHANGED <<fs, args, r, fd, q, dirh, pos, p, caller_path>>

\* Lines 222-225: the path is moved to the caller and 0 returned.
Finish ==
    /\ pc = "222"
    /\ IF ret_path
       THEN /\ q' = NULL
            /\ IF ViaFopen
               THEN p' = q /\ caller_path' = caller_path
               ELSE caller_path' = q /\ p' = p
       ELSE UNCHANGED <<q, p, caller_path>>
    /\ ReturnFromOpen(0)
    /\ UNCHANGED <<fs, args, r, fd, dirh, pos, ffd, caller_handle, fds, nextfd, trace>>

(* ------------------------------------------------------------------ *)
(* fopen_extension_release(), lines 238-249                             *)
(* ------------------------------------------------------------------ *)

\* Lines 238-249 after open_extension_release() returned fr.  take_fdopen()
\* may fail; the descriptor is then closed when the function is left.
FopenFinish ==
    /\ pc = "fopen_238"
    /\ IF fr < 0
       THEN /\ result' = fr
            /\ UNCHANGED <<p, ffd, caller_path, caller_handle, fds, trace>>
       ELSE \E ok \in BOOLEAN :
              IF ok
              THEN /\ caller_path' = IF args.want_path THEN p ELSE caller_path
                   /\ caller_handle' = FileHandle(ffd)
                   /\ p' = NULL
                   /\ ffd' = -EBADF
                   /\ result' = 0
                   /\ trace' = Append(trace, Sys("fdopen", <<>>, ffd, 0))
                   /\ fds' = fds
              ELSE /\ result' = -ENOMEM
                   /\ p' = NULL
                   /\ ffd' = -EBADF
                   /\ fds' = Closed(fds, ffd)
                   /\ trace' = trace \o <<Sys("fdopen", <<>>, ffd, -ENOMEM),
                                          Sys("close", <<>>, ffd, 0)>>
                   /\ UNCHANGED <<caller_path, caller_handle>>
    /\ pc' = IF args.api = "load_pairs" THEN "load_333" ELSE "done"
    /\ UNCHANGED <<fs, args, r, fd, q, dirh, pos, fr, nextfd>>

Next ==
    \/ Call
    \/ ChaseExact
    \/ OpenDir
    \/ ForeachDirent
    \/ ChaseOverride
    \/ ChaseOsRelease
    \/ CheckResult
    \/ Reopen
    \/ Finish
    \/ FopenFinish

Spec == Init /\ [][Next]_vars

(* ------------------------------------------------------------------ *)
(* Vocabulary of the properties                                         *)
(* ------------------------------------------------------------------ *)

Done == pc = "done"

\* The call looks for an extension, by a valid name.
ExtensionLookup ==
    /\ args.api # "none"
    /\ args.extension \in {<<"a">>, <<"c">>}

\* The call looks for the base os-release.
BaseLookup == args.api # "none" /\ args.extension = NULL

\* The exact file /usr/lib/extension-release.d/extension-release.<NAME>
\* exists below the root.
ExactPresent ==
    \E i \in 1..Len(fs.dir) : fs.dir[i].d_name = ExtensionReleasePrefix \o args.extension

\* An I/O error or a failed allocation happened during the call.  Not
\* finding a path is no error, nor is the outcome of reading the attribute.
Fault(e) ==
    /\ e.res < 0
    /\ e.op # "fgetxattr"
    /\ ~(e.op \in {"chase", "opendir"} /\ e.res = -ENOENT)
NoFault == \A i \in 1..Len(trace) : ~Fault(trace[i])

\* The entries of the directory that are regular files named
\* extension-release.<valid name>.
IsCandidateFile(e) ==
    /\ e.regular
    /\ e.d_type \in {"DT_REG", "DT_UNKNOWN"}
    /\ e.d_name \in ValidEntryNames

\* The attribute gate lets a file pass when its attribute reads as false.
PassesGate(e) == e.xattr = "0"

\* The positions of the eligible candidates of the directory.
Eligible ==
    { i \in 1..Len(fs.dir) :
        IsCandidateFile(fs.dir[i]) /\ (args.relax \/ PassesGate(fs.dir[i])) }

\* The path below the root of the directory's i-th entry.
EntryPath(i) == Root \o ExtensionReleaseDir \o fs.dir[i].d_name

\* The caller's outputs are as they were before the call.
OutputsUntouched == caller_path = UnsetPath /\ caller_handle = UnsetHandle

\* The caller was handed `path`: the path if it asked for one, and if it
\* asked for a handle, a readable descriptor (or stream) on that file; no
\* output it did not ask for was written.
Handed(path) ==
    /\ caller_path = IF args.want_path THEN path ELSE UnsetPath
    /\ IF args.want_handle
       THEN /\ ~caller_handle.unset
            /\ caller_handle.stream = (args.api = "fopen")
            /\ \E d \in fds : /\ d.id = caller_handle.fd
                              /\ d.file = path
                              /\ d.mode = "O_RDONLY"
       ELSE caller_handle = UnsetHandle

\* The system calls of one kind made so far.
Calls(op) == { i \in 1..Len(trace) : trace[i].op = op }

(* ------------------------------------------------------------------ *)
(* C1                                                                   *)
(* ------------------------------------------------------------------ *)

\* C1: when the exact file is absent, the directory holds two or more
\* eligible candidates and no I/O error occurs, the call fails with
\* -ENOTUNIQ whatever the order of the directory listing, and the caller
\* gets neither a path nor a handle.
C1_AmbiguousWhateverOrder ==
    (Done /\ ExtensionLookup /\ ~ExactPresent /\ NoFault /\ Cardinality(Eligible) >= 2)
        => (result = -ENOTUNIQ /\ OutputsUntouched)

\* Two eligible candidates were scanned for a caller that asked for both
\* outputs.
C1_Witness ==
    /\ Done /\ ExtensionLookup /\ ~ExactPresent /\ NoFault
    /\ Cardinality(Eligible) = 2
    /\ args.want_path /\ args.want_handle
    /\ Cardinality(Calls("openat")) = 2
    /\ result = -ENOTUNIQ

(* ------------------------------------------------------------------ *)
(* C2                                                                   *)
(* ------------------------------------------------------------------ *)

\* C2: when the exact file is absent and no I/O error occurs, a single
\* eligible candidate is the result wherever it stands in the listing, and
\* with no eligible candidate the call fails with -ENOENT.
C2_SingleCandidateOrNotFound ==
    (Done /\ ExtensionLookup /\ ~ExactPresent /\ NoFault)
        => /\ \A i \in Eligible :
                Eligible = {i} => (result = 0 /\ Handed(EntryPath(i)))
           /\ Eligible = {} => (result = -ENOENT /\ OutputsUntouched)

\* The single eligible candidate came second in the listing, after an entry
\* that was passed over, and was handed to the caller.
C2_Witness ==
    /\ Done /\ ExtensionLookup /\ ~ExactPresent /\ NoFault
    /\ Eligible = {2}
    /\ args.want_path /\ args.want_handle
    /\ result = 0
    /\ caller_path = EntryPath(2)

(* ------------------------------------------------------------------ *)
(* C3                                                                   *)
(* ------------------------------------------------------------------ *)

\* C3: when the exact file resolves, the directory is never opened nor
\* scanned, and (no I/O error occurring) the exact file is the result,
\* whatever else the directory holds.
C3_ExactMatchWins ==
    (ExtensionLookup /\ Len(trace) > 0 /\ trace[1].res >= 0)
        => /\ Calls("opendir") = {} /\ Calls("openat") = {} /\ Calls("readdir") = {}
           /\ Cardinality(Calls("chase")) = 1
           /\ (Done /\ NoFault)
                => (result = 0 /\ Handed(Root \o extension_full_path(args.extension)))

\* The exact file was returned from a directory that also holds another
\* candidate, the two being ambiguous for a fallback scan.
C3_Witness ==
    /\ Done /\ ExtensionLookup /\ ExactPresent
    /\ Cardinality(Eligible) = 2
    /\ args.want_path /\ args.want_handle
    /\ result = 0
    /\ caller_path = Root \o extension_full_path(args.extension)

(* ------------------------------------------------------------------ *)
(* C4                                                                   *)
(* ------------------------------------------------------------------ *)

\* The candidate files at the given attribute states.
CandidatesWith(xattrs) ==
    { i \in 1..Len(fs.dir) : IsCandidateFile(fs.dir[i]) /\ fs.dir[i].xattr \in xattrs }

\* The call ended as a scan does whose eligible candidates are G: none is
\* not found, one is the result, more are ambiguous.
ScanResultIs(G) ==
    /\ G = {} => (result = -ENOENT /\ OutputsUntouched)
    /\ \A i \in G : G = {i} => (result = 0 /\ Handed(EntryPath(i)))
    /\ Cardinality(G) >= 2 => (result = -ENOTUNIQ /\ OutputsUntouched)

\* The attribute is absent, cannot be read, or is no boolean.
NoBoolean == {"ENODATA", "EIO", "maybe"}

\* A fallback scan that consults the attribute ran to its end without error.
StrictScanDone ==
    Done /\ ExtensionLookup /\ ~ExactPresent /\ NoFault /\ ~args.relax

\* C4 as stated: with relax_check unset, a candidate whose attribute is
\* absent, unreadable or unparseable is eligible like one tagged
\* strict=false: it is selected, or counts towards ambiguity.
C4_AsStated_NoAttributeIsEligible ==
    StrictScanDone => ScanResultIs(CandidatesWith(NoBoolean \cup {"0"}))

\* C4, amended: with relax_check unset, a candidate whose attribute is
\* absent, unreadable or unparseable is not eligible: the attribute function
\* returns a negative value for it and the entry is passed over like one
\* tagged strict=true; only candidates whose attribute parses as false are
\* selected or count towards ambiguity.
C4_NoAttributeIsSkipped ==
    /\ \A j \in Calls("fgetxattr") :
          (\E i \in CandidatesWith(NoBoolean) : fs.dir[i].d_name = trace[j].arg)
              => trace[j].res < 0
    /\ (StrictScanDone /\ CandidatesWith(NoBoolean) # {})
          => ScanResultIs(CandidatesWith({"0"}))

\* A file without a usable attribute was scanned first and a file tagged
\* strict=false second: the second is the result, not an ambiguity.
C4_Witness ==
    /\ StrictScanDone
    /\ Len(fs.dir) = 2
    /\ CandidatesWith(NoBoolean) = {1}
    /\ CandidatesWith({"0"}) = {2}
    /\ \E j \in Calls("fgetxattr") : trace[j].arg = fs.dir[1].d_name /\ trace[j].res < 0
    /\ args.want_path /\ args.want_handle
    /\ result = 0
    /\ caller_path = EntryPath(2)

(* ------------------------------------------------------------------ *)
(* C5                                                                   *)
(* ------------------------------------------------------------------ *)

\* C5: with relax_check unset, a candidate tagged strict=true is never
\* selected (no path of it and no descriptor on it is kept or returned) and
\* never counts towards ambiguity; when it is the only entry named
\* extension-release.*, the call fails with -ENOENT.
C5_StrictTrueExcluded ==
    /\ (ExtensionLookup /\ ~ExactPresent /\ ~args.relax)
          => \A i \in CandidatesWith({"1"}) :
                /\ q # EntryPath(i) /\ p # EntryPath(i) /\ caller_path # EntryPath(i)
                /\ \A d \in fds : d.file = EntryPath(i) => (d.id # fd /\ d.mode = "O_PATH")
    /\ (StrictScanDone /\ CandidatesWith({"1"}) # {})
          => ScanResultIs(CandidatesWith({"0"}))
    /\ (StrictScanDone /\ \E i \in CandidatesWith({"1"}) :
            \A j \in 1..Len(fs.dir) :
               startswith(fs.dir[j].d_name, ExtensionReleasePrefix) # NULL => j = i)
          => result = -ENOENT

\* The only extension-release.* entry of the directory is tagged
\* strict=true; its attribute was read and the call ended with -ENOENT.
C5_Witness ==
    /\ StrictScanDone
    /\ Len(fs.dir) = 2
    /\ CandidatesWith({"1"}) = {2}
    /\ startswith(fs.dir[1].d_name, ExtensionReleasePrefix) = NULL
    /\ \E j \in Calls("fgetxattr") : trace[j].arg = fs.dir[2].d_name /\ trace[j].res = 1
    /\ result = -ENOENT

(* ------------------------------------------------------------------ *)
(* C6                                                                   *)
(* ------------------------------------------------------------------ *)

\* C6: with relax_check set the attribute is never read, and every regular,
\* validly named extension-release.* entry is eligible whatever its
\* attribute: one such file is the result, two are ambiguous.
C6_RelaxIgnoresAttribute ==
    /\ (args.api # "none" /\ args.relax) => Calls("fgetxattr") = {}
    /\ (Done /\ ExtensionLookup /\ ~ExactPresent /\ NoFault /\ args.relax)
          => ScanResultIs(CandidatesWith(XattrStates))

\* With relax_check set, two files tagged strict=true were found ambiguous.
C6_Witness ==
    /\ Done /\ ExtensionLookup /\ ~ExactPresent /\ NoFault /\ args.relax
    /\ CandidatesWith({"1"}) = {1, 2}
    /\ result = -ENOTUNIQ

(* ------------------------------------------------------------------ *)
(* C7                                                                   *)
(* ------------------------------------------------------------------ *)

\* C7: once the call has returned, on any exit path, every descriptor and
\* directory handle it opened is closed, except the one readable descriptor
\* handed to the caller on success.
C7_EveryDescriptorReleased ==
    Done => \A d \in fds :
               /\ result = 0
               /\ args.want_handle
               /\ d.id = caller_handle.fd
               /\ d.mode = "O_RDONLY"

(* ------------------------------------------------------------------ *)
(* C8                                                                   *)
(* ------------------------------------------------------------------ *)

\* C8: whenever open_extension_release() or fopen_extension_release()
\* returns an error, the caller's output variables are as they were before
\* the call.
C8_NoOutputOnError ==
    (Done /\ result # 0) => OutputsUntouched

\* fopen_extension_release() had the path and the descriptor of a resolved
\* file in its locals when take_fdopen() failed.
C8_Witness ==
    /\ Done /\ args.api = "fopen" /\ args.want_path /\ args.want_handle
    /\ fr = 0
    /\ \E j \in Calls("fdopen") : trace[j].res < 0
    /\ result < 0
    /\ OutputsUntouched

(* ------------------------------------------------------------------ *)
(* C9                                                                   *)
(* ------------------------------------------------------------------ *)

\* The lookups of the base descriptor made so far, in order: they are the
\* first entries of the trace.
Lookups == SubSeq(trace, 1, Cardinality(Calls("chase")))

\* Lines 99-206 are over: the call is at line 207 or beyond.
Resolved == pc \in {"207", "210", "222", "fopen_238", "done"}

\* At line 207 the locals hold the outcome `res` of resolving `path`.
ResolutionIs(res, path) ==
    pc = "207" => /\ r = res
                  /\ (res >= 0 /\ ret_path) => q = path
                  /\ (res >= 0 /\ ret_fd) => FileOf(fds, fd) = path

\* The call ended with the outcome `res` of resolving `path`: an error is
\* returned as it is, a resolved file is handed to the caller (unless an
\* I/O error hits the reopening of its handle).
FinalIs(res, path) ==
    Done => /\ res < 0 => (result = res /\ OutputsUntouched)
            /\ (res >= 0 /\ NoFault) => result = 0
            /\ result = 0 => Handed(path)

\* C9: with SYSTEMD_OS_RELEASE set, the base lookup resolves the override
\* path and nothing else, and its outcome is final: a success is the result
\* whatever /etc/os-release and /usr/lib/os-release are, and every error,
\* -ENOENT included, is returned without trying them.
C9_OverrideIsFinal ==
    (BaseLookup /\ fs.env # NULL)
        => /\ Len(Lookups) <= 1
           /\ \A j \in 1..Len(Lookups) : Lookups[j].arg = fs.env
           /\ Resolved
                => /\ Len(Lookups) = 1
                   /\ ResolutionIs(Lookups[1].res, fs.env)
                   /\ FinalIs(Lookups[1].res, fs.env)

\* The override was handed to the caller although /etc/os-release and
\* /usr/lib/os-release exist.
C9_Witness ==
    /\ Done /\ BaseLookup /\ fs.env = OverridePath
    /\ fs.files = {EtcOsRelease, UsrLibOsRelease, OverridePath}
    /\ args.want_path /\ args.want_handle
    /\ result = 0
    /\ caller_path = OverridePath

(* ------------------------------------------------------------------ *)
(* C10                                                                  *)
(* ------------------------------------------------------------------ *)

\* C10: without the override, /etc/os-release is tried first and
\* /usr/lib/os-release only after /etc/os-release gave -ENOENT; the first
\* outcome that is not -ENOENT, success or error, is final, and when both
\* give -ENOENT the call fails with -ENOENT.
C10_FirstNotNotFoundIsFinal ==
    (BaseLookup /\ fs.env = NULL)
        => LET n == Len(Lookups)
           IN  /\ n <= 2
               /\ n >= 1 => Lookups[1].arg = EtcOsRelease
               /\ n = 2 => (Lookups[2].arg = UsrLibOsRelease /\ Lookups[1].res = -ENOENT)
               /\ Resolved
                    => /\ n >= 1
                       /\ Lookups[1].res = -ENOENT => n = 2
                       /\ ResolutionIs(Lookups[n].res, Root \o Lookups[n].arg)
                       /\ FinalIs(Lookups[n].res, Root \o Lookups[n].arg)

\* /etc/os-release was not found and /usr/lib/os-release was handed to the
\* caller.
C10_Witness ==
    /\ Done /\ BaseLookup /\ fs.env = NULL
    /\ fs.files = {UsrLibOsRelease}
    /\ Len(Lookups) = 2
    /\ args.want_path /\ args.want_handle
    /\ result = 0
    /\ caller_path = Root \o UsrLibOsRelease

(* ------------------------------------------------------------------ *)
(* C16                                                                  *)
(* ------------------------------------------------------------------ *)

\* The exact lookup of an extension failed with an error that is not
\* -ENOENT.
ExactLookupError ==
    /\ ExtensionLookup
    /\ Len(trace) > 0
    /\ trace[1].op = "chase"
    /\ trace[1].res < 0
    /\ trace[1].res # -ENOENT

\* C16: when the exact lookup fails with an error other than -ENOENT, that
\* error is what the call returns and the fallback scan is never entered;
\* the directory is opened only after -ENOENT.
C16_OtherErrorIsFatal ==
    /\ ExactLookupError
          => /\ Len(trace) = 1
             /\ pc \notin {"125", "131"}
             /\ Done => (result = trace[1].res /\ OutputsUntouched)
    /\ (ExtensionLookup /\ Calls("opendir") # {})
          => (trace[1].op = "chase" /\ trace[1].res = -ENOENT)

\* The exact lookup met a permission error in a directory that holds an
\* eligible candidate, and the call returned that error.
C16_Witness ==
    /\ Done /\ ExactLookupError
    /\ ~ExactPresent
    /\ Cardinality(Eligible) = 1
    /\ result = -SysErrno.EACCES

(* ------------------------------------------------------------------ *)
(* C19                                                                  *)
(* ------------------------------------------------------------------ *)

\* The number of close() calls made on descriptor id.
ClosesOf(id) == Cardinality({ j \in Calls("close") : trace[j].fd = id })

\* C19: a handle is reopened exactly when one is asked for and resolution
\* succeeded; the O_PATH descriptor that was reopened is closed exactly once
\* and is no longer open, whether the reopen succeeded or failed.  When the
\* reopen fails its error is returned, no descriptor stays open and no
\* output is written; when it succeeds the only descriptor left is the
\* readable one, which is the one the caller receives.
C19_PathHandleClosedOnce ==
    /\ Cardinality(Calls("reopen")) <= 1
    /\ Calls("reopen") # {} => ret_fd
    /\ (Done /\ result = 0 /\ args.want_handle) => Calls("reopen") # {}
    /\ \A i \in Calls("reopen") :
          LET x == trace[i].fd
              real_fd == trace[i].res
          IN  /\ ClosesOf(x) = 1
              /\ \A d \in fds : d.id # x /\ d.mode # "O_PATH"
              /\ real_fd < 0 =>
                    /\ fds = {}
                    /\ Done => (result = real_fd /\ OutputsUntouched)
              /\ (real_fd >= 0 /\ Done /\ result = 0) =>
                    /\ Cardinality(fds) = 1
                    /\ \A d \in fds : d.id = real_fd /\ d.mode = "O_RDONLY"
                    /\ caller_handle.fd = real_fd

\* The only eligible candidate of the scan was resolved, a descriptor was
\* asked for, the reopen failed and the call returned its error.
C19_Witness ==
    /\ Done /\ ExtensionLookup /\ ~ExactPresent
    /\ args.want_handle
    /\ Cardinality(Eligible) = 1
    /\ \E i \in Calls("reopen") : trace[i].res = -SysErrno.EMFILE
    /\ result = -SysErrno.EMFILE
    /\ fds = {}

(* ------------------------------------------------------------------ *)
(* C18                                                                  *)
(* ------------------------------------------------------------------ *)

\* The positions of the trace where openat() failed.
FailedOpens == { i \in Calls("openat") : trace[i].res < 0 }

\* C18: a failed openat() of a validly named extension-release.* entry ends
\* the scan: nothing is opened or read after it, the directory is closed,
\* and the call returns the error of the open and writes no output, also
\* when an eligible candidate was recorded before.
C18_OpenFailureIsFinal ==
    \A i \in FailedOpens :
        /\ trace[i].arg \in ValidEntryNames
        /\ \A j \in (i + 1)..Len(trace) : trace[j].op = "closedir"
        /\ pc \in {"fopen_238", "done"}
        /\ pc = "fopen_238" => fr = trace[i].res
        /\ Done => (result = trace[i].res /\ OutputsUntouched)

\* The first entry of the directory was recorded as the eligible candidate,
\* the open of the second entry failed, and the call returned that error.
C18_Witness ==
    /\ Done /\ ExtensionLookup /\ ~ExactPresent
    /\ Len(fs.dir) = 2
    /\ Eligible = {1}
    /\ r = 0
    /\ \E i \in FailedOpens : trace[i].arg = fs.dir[2].d_name
    /\ result = -SysErrno.EMFILE
    /\ OutputsUntouched

(* ------------------------------------------------------------------ *)
(* C17                                                                  *)
(* ------------------------------------------------------------------ *)

\* The longest directory listing of the scans that hold an entry with a
\* problem of its own next to other entries.
MaxScanEntries == 3

\* The entry's name begins with "extension-release.".
HasPrefix(e) ==
    /\ Len(e.d_name) >= Len(ExtensionReleasePrefix)
    /\ SubSeq(e.d_name, 1, Len(ExtensionReleasePrefix)) = ExtensionReleasePrefix

\* The part of the entry's name after "extension-release.".
Suffix(e) == SubSeq(e.d_name, Len(ExtensionReleasePrefix) + 1, Len(e.d_name))

\* The entry has a problem of its own: it is of a non-regular type, lacks the
\* prefix, has a suffix that is no valid image name (here: it begins with
\* ".#"), is no regular file once opened, or (when the attribute is
\* consulted) its attribute cannot be read or is no boolean.
PerCandidateProblem(e, relax) ==
    \/ e.d_type \notin {"DT_REG", "DT_UNKNOWN"}
    \/ ~HasPrefix(e)
    \/ HasPrefix(e) /\ Len(Suffix(e)) >= 2 /\ SubSeq(Suffix(e), 1, 2) = <<".", "#">>
    \/ ~e.regular
    \/ ~relax /\ e.xattr \in NoBoolean

\* The listing d without its k-th entry.
Without(d, k) == SubSeq(d, 1, k - 1) \o SubSeq(d, k + 1, Len(d))

\* The listings of MaxScanEntries entries that hold an entry with a problem
\* of its own whatever the relax flag is.
ProblemListings ==
    { d \in SeqsUpTo(DirEntries, MaxScanEntries) :
        /\ Len(d) = MaxScanEntries
        /\ \A i, j \in 1..Len(d) : i # j => d[i].d_name # d[j].d_name
        /\ \E k \in 1..Len(d) : PerCandidateProblem(d[k], TRUE) }

\* The directories of Spec, and the longer listings with a problem entry.
InitScan ==
    /\ fs \in FileSystems \cup { [dir |-> d, files |-> {}, env |-> NULL] : d \in ProblemListings }
    /\ args = NoArgs
    /\ pc = "idle"
    /\ r = 0
    /\ fd = 0
    /\ q = NULL
    /\ dirh = 0
    /\ pos = 0
    /\ fr = 0
    /\ p = NULL
    /\ ffd = -EBADF
    /\ caller_path = UnsetPath
    /\ caller_handle = UnsetHandle
    /\ result = NoResult
    /\ fds = {}
    /\ nextfd = 3
    /\ trace = <<>>

SpecScan == InitScan /\ [][Next]_vars

\* The paths of the eligible candidates of the listing d.
EligiblePaths(d) ==
    { Root \o ExtensionReleaseDir \o d[i].d_name :
        i \in { j \in 1..Len(d) : IsCandidateFile(d[j]) /\ (args.relax \/ PassesGate(d[j])) } }

\* The call ended as the scan of the listing d ends when nothing fails:
\* no eligible candidate is not found, one is the result, more are ambiguous.
EndsLikeScanOf(d) ==
    LET P == EligiblePaths(d)
    IN  /\ P = {} => (result = -ENOENT /\ OutputsUntouched)
        /\ \A x \in P : P = {x} => (result = 0 /\ Handed(x))
        /\ Cardinality(P) >= 2 => (result = -ENOTUNIQ /\ OutputsUntouched)

\* The positions of the directory's entries that have a problem of their own.
ProblemEntries ==
    { k \in 1..Len(fs.dir) : PerCandidateProblem(fs.dir[k], args.relax) }

\* A fallback scan ran to its end without an I/O error.
ScanDone == Done /\ ExtensionLookup /\ ~ExactPresent /\ NoFault

\* C17: an entry with a problem of its own (non-regular type, no
\* "extension-release." prefix, invalid suffix, not a regular file once
\* opened, attribute unreadable or no boolean) does not end the scan: the
\* call ends as the scan of the directory ends, and for every such entry it
\* ends as the scan of the directory without that entry ends.
C17_ProblemEntryIsSkipped ==
    ScanDone => /\ EndsLikeScanOf(fs.dir)
                /\ \A k \in ProblemEntries : EndsLikeScanOf(Without(fs.dir, k))

\* An entry whose suffix is no valid image name stands between two eligible
\* candidates; the scan went past it without opening it and found the
\* ambiguity.
C17_Witness ==
    /\ ScanDone
    /\ Len(fs.dir) = 3
    /\ ProblemEntries = {2}
    /\ fs.dir[2].d_name = ExtensionReleasePrefix \o <<".", "#", "a">>
    /\ Eligible = {1, 3}
    /\ Cardinality(Calls("openat")) = 2
    /\ result = -ENOTUNIQ

(* ------------------------------------------------------------------ *)
(* path_is_extension_tree(), lines 39-59, and                           *)
(* load_extension_release_pairs(), lines 327-337                        *)
(* ------------------------------------------------------------------ *)

\* The results of laccess(path, F_OK) at line 47: the root is there, is
\* missing, or cannot be reached.
LaccessResults == {0, -ENOENT, -SysErrno.EACCES}

\* The results of load_env_file_pairs() at line 336.
LoadEnvFileResults == {0, -ENOMEM}

\* Lines 53-58 taking every failure for "no".
TreeResult_ErrorsAreNo(rr) == IF rr < 0 THEN 0 ELSE 1

\* Lines 53-58: -ENOENT is "no", any other error is returned, success is
\* "yes".
TreeResult(rr) ==
    IF rr = -ENOENT THEN 0
    ELSE IF rr < 0 THEN rr
    ELSE 1

\* Lines 39-52: path_is_extension_tree() is called; the path is probed, then
\* open_extension_release(path, extension, relax, NULL, NULL) is entered.
CallTree ==
    /\ pc = "idle"
    /\ \E extension \in Extensions, relax \in BOOLEAN, la \in LaccessResults :
          LET a == [api |-> "is_tree", extension |-> extension, relax |-> relax,
                    want_path |-> FALSE, want_handle |-> FALSE]
          IN  /\ trace' = Append(trace, Sys("laccess", Root, 0, la))
              /\ IF la < 0
                 THEN /\ args' = a
                      /\ pc' = "done"
                      /\ result' = la
                      /\ UNCHANGED <<fs, r, fd, q, dirh, pos, fr, p, ffd,
                                     caller_path, caller_handle, fds, nextfd>>
                 ELSE Enter(a)

\* Lines 53-58.
TreeFinish ==
    /\ pc = "tree_53"
    /\ result' = TreeResult(fr)
    /\ pc' = "done"
    /\ UNCHANGED <<fs, args, r, fd, q, dirh, pos, fr, p, ffd,
                   caller_path, caller_handle, fds, nextfd, trace>>

\* Lines 327-332: load_extension_release_pairs() is called and enters
\* fopen_extension_release(root, extension, relax, &p, &f).
CallLoadPairs ==
    /\ pc = "idle"
    /\ \E extension \in Extensions, relax \in BOOLEAN :
          Enter([api |-> "load_pairs", extension |-> extension, relax |-> relax,
                 want_path |-> TRUE, want_handle |-> TRUE])
    /\ UNCHANGED trace

\* Lines 333-337 after fopen_extension_release() returned (its result is in
\* `result`, its outputs p and f in caller_path and caller_handle): the pairs
\* are loaded, the stream is closed and the path freed when the function is
\* left.
LoadFinish ==
    /\ pc = "load_333"
    /\ IF result < 0
       THEN UNCHANGED <<result, caller_path, caller_handle, fds, trace>>
       ELSE \E res \in LoadEnvFileResults :
              /\ result' = res
              /\ trace' = trace \o <<Sys("load_env_file_pairs", caller_path, caller_handle.fd, res),
                                     Sys("fclose", <<>>, caller_handle.fd, 0)>>
              /\ fds' = Closed(fds, caller_handle.fd)
              /\ caller_handle' = UnsetHandle
              /\ caller_path' = UnsetPath
    /\ pc' = "done"
    /\ UNCHANGED <<fs, args, r, fd, q, dirh, pos, fr, p, ffd, nextfd>>

NextCallers ==
    \/ Call
    \/ ChaseExact
    \/ OpenDir
    \/ ForeachDirent
    \/ ChaseOverride
    \/ ChaseOsRelease
    \/ CheckResult
    \/ Reopen
    \/ Finish
    \/ FopenFinish
    \/ CallTree
    \/ TreeFinish
    \/ CallLoadPairs
    \/ LoadFinish

SpecCallers == Init /\ [][NextCallers]_vars

(* ------------------------------------------------------------------ *)
(* C14                                                                  *)
(* ------------------------------------------------------------------ *)

\* The call was made with an extension name that is no valid image name.
InvalidNameCall == args.api # "none" /\ args.extension = <<".", "#", "a">>

\* C14 as stated: in each of the four operations a call with an invalid
\* extension name makes no file system access at all and can return nothing
\* but -EINVAL.
C14_AsStated_InvalidBeforeAnyAccess ==
    InvalidNameCall => /\ trace = <<>>
                       /\ Done => result = -EINVAL

\* C14, amended: open_extension_release(), fopen_extension_release() and
\* load_extension_release_pairs() reject an invalid extension name with
\* -EINVAL before any file system access and write no output.
\* path_is_extension_tree() first probes the root with laccess() and returns
\* the error of the probe if it fails; otherwise it returns -EINVAL.  In no
\* operation is a path resolved, a directory opened or a file opened for
\* such a name.
C14_InvalidBeforeResolution ==
    InvalidNameCall =>
        /\ fds = {}
        /\ pc \in {"fopen_238", "load_333", "tree_53", "done"}
        /\ args.api # "is_tree" =>
              /\ trace = <<>>
              /\ OutputsUntouched
              /\ Done => result = -EINVAL
        /\ args.api = "is_tree" =>
              /\ Len(trace) = 1
              /\ trace[1].op = "laccess"
              /\ Done => result = (IF trace[1].res < 0 THEN trace[1].res ELSE -EINVAL)

\* path_is_extension_tree() was called with an invalid name on a root that
\* is missing: the probe was the only access and its error was returned.
C14_Witness ==
    /\ Done /\ InvalidNameCall
    /\ args.api = "is_tree"
    /\ Calls("laccess") = {1}
    /\ trace[1].res = -ENOENT
    /\ result = -ENOENT

(* ------------------------------------------------------------------ *)
(* C20                                                                  *)
(* ------------------------------------------------------------------ *)

\* path_is_extension_tree() has returned.
TreeDone == Done /\ args.api = "is_tree"

\* The probe of the path at line 47 succeeded.
PathProbed == Len(trace) > 0 /\ trace[1].op = "laccess" /\ trace[1].res = 0

\* C20: path_is_extension_tree() returns the error of the probe when the path
\* cannot be accessed (a missing root is -ENOENT, not 0); otherwise it returns
\* 1 exactly when open_extension_release() succeeded, 0 exactly when it
\* failed with -ENOENT, and its error in every other case.  So, absent I/O
\* errors, an exact match or a single eligible candidate is 1, no eligible
\* candidate is 0, two eligible candidates are -ENOTUNIQ and an invalid
\* extension name is -EINVAL.
C20_TriState ==
    TreeDone =>
        /\ ~PathProbed => (Len(trace) = 1 /\ trace[1].res < 0 /\ result = trace[1].res)
        /\ PathProbed =>
              /\ result = 1 <=> fr = 0
              /\ result = 0 <=> fr = -ENOENT
              /\ result \notin {0, 1} => (result < 0 /\ result = fr)
              /\ InvalidNameCall => result = -EINVAL
              /\ (ExtensionLookup /\ NoFault) =>
                    /\ ExactPresent => result = 1
                    /\ ~ExactPresent =>
                          /\ Cardinality(Eligible) = 1 => result = 1
                          /\ Eligible = {} => result = 0
                          /\ Cardinality(Eligible) >= 2 => result = -ENOTUNIQ
              /\ (BaseLookup /\ NoFault /\ fs.env = NULL) =>
                    result = (IF fs.files \cap {EtcOsRelease, UsrLibOsRelease} # {} THEN 1 ELSE 0)

\* The root is there, the exact file is not, and the directory holds two
\* eligible candidates: the answer is -ENOTUNIQ, neither 0 nor 1.
C20_Witness ==
    /\ TreeDone /\ PathProbed
    /\ ExtensionLookup /\ ~ExactPresent /\ NoFault
    /\ Cardinality(Eligible) = 2
    /\ fr = -ENOTUNIQ
    /\ result = -ENOTUNIQ

(* ------------------------------------------------------------------ *)
(* image_name_is_valid() on its own, lines 22-37                        *)
(* ------------------------------------------------------------------ *)

\* The longest name image_name_is_valid() is applied to.
MaxNameLen == 3

\* The characters of the names: a letter, the dot, '#', the path separator,
\* a control character and a byte that is no valid UTF-8.
NameChars == {"a", ".", "#", "/"} \cup ControlChars \cup InvalidUtf8Bytes

\* The names image_name_is_valid() is applied to.
Names == SeqsUpTo(NameChars, MaxNameLen)

\* The name s is in args.extension; nothing else is in use.
InitName ==
    /\ \E s \in Names : args = [NoArgs EXCEPT !.api = "image_name_is_valid", !.extension = s]
    /\ fs = [dir |-> <<>>, files |-> {}, env |-> NULL]
    /\ pc = "idle"
    /\ r = 0
    /\ fd = 0
    /\ q = NULL
    /\ dirh = 0
    /\ pos = 0
    /\ fr = 0
    /\ p = NULL
    /\ ffd = -EBADF
    /\ caller_path = UnsetPath
    /\ caller_handle = UnsetHandle
    /\ result = NoResult
    /\ fds = {}
    /\ nextfd = 3
    /\ trace = <<>>

\* image_name_is_valid(s) is called and returns.
ValidateName ==
    /\ pc = "idle"
    /\ args.api = "image_name_is_valid"
    /\ result' = image_name_is_valid(args.extension)
    /\ pc' = "done"
    /\ UNCHANGED <<fs, args, r, fd, q, dirh, pos, fr, p, ffd,
                   caller_path, caller_handle, fds, nextfd, trace>>

NextName == ValidateName

SpecName == InitName /\ [][NextName]_vars

(* ------------------------------------------------------------------ *)
(* C15                                                                  *)
(* ------------------------------------------------------------------ *)

\* The name given to image_name_is_valid().
TheName == args.extension

HasSeparator == \E i \in 1..Len(TheName) : TheName[i] = "/"
HasControlChar == \E i \in 1..Len(TheName) : TheName[i] = "\t"
HasBadEncoding == \E i \in 1..Len(TheName) : TheName[i] = "0xFF"
IsTemporaryName == Len(TheName) >= 2 /\ TheName[1] = "." /\ TheName[2] = "#"
IsEmptyOrDots == TheName \in {<<>>, <<".">>, <<".", ".">>}

\* C15: image_name_is_valid() returns false for every name that holds a
\* path separator, holds a control character, begins with ".#", is empty,
\* is "." or "..", or is no valid UTF-8; it returns true for every other
\* name (of a length no file name limit forbids), that is, only when the
\* four rules all pass.
C15_NameRules ==
    Done => /\ HasSeparator => result = FALSE
            /\ HasControlChar => result = FALSE
            /\ IsTemporaryName => result = FALSE
            /\ IsEmptyOrDots => result = FALSE
            /\ HasBadEncoding => result = FALSE
            /\ result = TRUE <=> ~(HasSeparator \/ HasControlChar \/ IsTemporaryName
                                    \/ IsEmptyOrDots \/ HasBadEncoding)

\* ".#a" breaks the temporary-file rule alone, and was rejected.
C15_Witness ==
    /\ Done
    /\ TheName = <<".", "#", "a">>
    /\ result = FALSE

(* ------------------------------------------------------------------ *)
(* load_os_release_pairs_with_prefix(), lines 298-325                   *)
(* ------------------------------------------------------------------ *)

\* The most pairs an os-release file of the model holds.
MaxPairs == 3

\* ascii_tolower(): the upper-case ASCII letters and their lower-case forms.
UpperCase == <<"A", "B", "C", "D", "E", "F", "G", "H", "I", "J", "K", "L", "M", "N", "O", "P", "Q", "R", "S", "T", "U", "V", "W", "X", "Y", "Z">>
LowerCase == <<"a", "b", "c", "d", "e", "f", "g", "h", "i", "j", "k", "l", "m", "n", "o", "p", "q", "r", "s", "t", "u", "v", "w", "x", "y", "z">>
ascii_tolower(c) ==
    IF \E i \in 1..Len(UpperCase) : UpperCase[i] = c
    THEN LowerCase[CHOOSE i \in 1..Len(UpperCase) : UpperCase[i] = c]
    ELSE c

\* ascii_strlower() leaving the string as it is.
ascii_strlower_Identity(s) == s

\* ascii_strlower(s): every character of s in lower case.
ascii_strlower(s) == [i \in 1..Len(s) |-> ascii_tolower(s[i])]

\* The four main ID fields of line 310.
MainIdFields == {<<"I", "D">>,
                 <<"V", "E", "R", "S", "I", "O", "N", "_", "I", "D">>,
                 <<"B", "U", "I", "L", "D", "_", "I", "D">>,
                 <<"V", "A", "R", "I", "A", "N", "T", "_", "I", "D">>}

\* Line 310 comparing without regard to case.
STR_IN_SET_AnyCase(key) == ascii_strlower(key) \in { ascii_strlower(k) : k \in MainIdFields }

\* Line 310: STR_IN_SET(*p, "ID", "VERSION_ID", "BUILD_ID", "VARIANT_ID").
STR_IN_SET(key) == key \in MainIdFields

\* strjoin(prefix, key, "=", value)
strjoin(prefix, key, value) == prefix \o key \o <<"=">> \o value

\* The keys and values of the os-release files of the model: the four main
\* fields, a field that is none of them, and a main field in lower case.
SourceKeys == MainIdFields \cup {<<"P", "R", "E", "T", "T", "Y", "_", "N", "A", "M", "E">>, <<"i", "d">>}
SourceValues == {<<"f">>, <<"3", "9">>}
SourcePairs == { <<k, v>> : k \in SourceKeys, v \in SourceValues }
Prefixes == {<<"I", "D", "_">>, <<>>}

\* What load_os_release_pairs() at line 302 can return other than success.
LoadPairsFaults == {-ENOENT, -ENOMEM}

\* The arguments of a call: the prefix, and in `pairs` the content of the
\* os-release file below the root.
InitPairs ==
    /\ \E prefix \in Prefixes, pairs \in SeqsUpTo(SourcePairs, MaxPairs) :
          args = [api |-> "load_os_release_pairs_with_prefix", prefix |-> prefix, pairs |-> pairs]
    /\ fs = [dir |-> <<>>, files |-> {}, env |-> NULL]
    /\ pc = "idle"
    /\ r = 0
    /\ fd = 0
    /\ q = NULL
    /\ dirh = 0
    /\ pos = 0
    /\ fr = 0
    /\ p = NULL
    /\ ffd = -EBADF
    /\ caller_path = UnsetPath
    /\ caller_handle = UnsetHandle
    /\ result = NoResult
    /\ fds = {}
    /\ nextfd = 3
    /\ trace = <<>>

\* The locals of load_os_release_pairs_with_prefix(): os_release_pairs is
\* kept in p, os_release_pairs_prefixed in q, the position of
\* STRV_FOREACH_PAIR in pos; *ret is caller_path.
os_release_pairs == p
os_release_pairs_prefixed == q

\* strv_consume(&l, line): the list l with line appended; a NULL list is the
\* empty list.
strv_consume(l, line) == IF l = NULL THEN <<line>> ELSE Append(l, line)

\* Lines 302-304: the pairs of the os-release file are loaded.
LoadOsReleasePairs ==
    /\ pc = "idle"
    /\ args.api = "load_os_release_pairs_with_prefix"
    /\ \E res \in {0} \cup LoadPairsFaults :
          /\ r' = res
          /\ IF res < 0
             THEN /\ pc' = "done"
                  /\ result' = res
                  /\ trace' = Append(trace, Sys("load_os_release_pairs", <<>>, 0, res))
                  /\ UNCHANGED <<p, pos>>
             ELSE /\ pc' = "306"
                  /\ p' = args.pairs
                  /\ pos' = 1
                  /\ UNCHANGED <<result, trace>>
    /\ UNCHANGED <<fs, args, fd, q, dirh, fr, ffd, caller_path, caller_handle, fds, nextfd>>

\* Lines 306-320: one pass through STRV_FOREACH_PAIR, with the outcome of
\* the allocation in strjoin() and in strv_consume().
ForeachPair ==
    /\ pc = "306"
    /\ pos <= Len(os_release_pairs)
    /\ \E join_ok \in BOOLEAN, consume_ok \in BOOLEAN :
          LET key == os_release_pairs[pos][1]
              value == os_release_pairs[pos][2]
              lowered == ascii_strlower(key)
              line == strjoin(args.prefix, lowered, value)
          IN  IF ~STR_IN_SET(key)
              THEN /\ pos' = pos + 1
                   /\ UNCHANGED <<pc, r, p, q, result, trace>>
              ELSE IF ~join_ok \/ ~consume_ok
              THEN /\ pc' = "done"
                   /\ result' = -ENOMEM
                   /\ r' = IF join_ok THEN -ENOMEM ELSE r
                   /\ p' = [os_release_pairs EXCEPT ![pos] = <<lowered, value>>]
                   /\ trace' = Append(trace, Sys(IF join_ok THEN "strv_consume" ELSE "strjoin",
                                                 key, 0, -ENOMEM))
                   /\ UNCHANGED <<q, pos>>
              ELSE /\ pos' = pos + 1
                   /\ r' = 0
                   /\ p' = [os_release_pairs EXCEPT ![pos] = <<lowered, value>>]
                   /\ q' = strv_consume(os_release_pairs_prefixed, line)
                   /\ UNCHANGED <<pc, result, trace>>
    /\ UNCHANGED <<fs, args, fd, dirh, fr, ffd, caller_path, caller_handle, fds, nextfd>>

\* Lines 322-324: the list is moved to the caller and 0 returned.
ReturnPairs ==
    /\ pc = "306"
    /\ pos > Len(os_release_pairs)
    /\ caller_path' = os_release_pairs_prefixed
    /\ q' = NULL
    /\ result' = 0
    /\ pc' = "done"
    /\ UNCHANGED <<fs, args, r, fd, dirh, pos, fr, p, ffd, caller_handle, fds, nextfd, trace>>

NextPairs ==
    \/ LoadOsReleasePairs
    \/ ForeachPair
    \/ ReturnPairs

SpecPairs == InitPairs /\ [][NextPairs]_vars

(* ------------------------------------------------------------------ *)
(* C13                                                                  *)
(* ------------------------------------------------------------------ *)

\* The key under which a retained field is returned, without the prefix.
ReturnedKey(key) ==
    CASE key = <<"I", "D">> -> <<"i", "d">>
      [] key = <<"V", "E", "R", "S", "I", "O", "N", "_", "I", "D">> -> <<"v", "e", "r", "s", "i", "o", "n", "_", "i", "d">>
      [] key = <<"B", "U", "I", "L", "D", "_", "I", "D">> -> <<"b", "u", "i", "l", "d", "_", "i", "d">>
      [] key = <<"V", "A", "R", "I", "A", "N", "T", "_", "I", "D">> -> <<"v", "a", "r", "i", "a", "n", "t", "_", "i", "d">>
      [] OTHER -> <<>>

RECURSIVE ExpectedLines(_, _)
\* The entries expected for the source pairs: prefix, lower-case key, "=",
\* value for each of the four fields, nothing for any other key, in the order
\* of the source.
ExpectedLines(pairs, prefix) ==
    IF pairs = <<>> THEN <<>>
    ELSE LET key == Head(pairs)[1]
             value == Head(pairs)[2]
         IN  (IF ReturnedKey(key) # <<>>
              THEN << prefix \o ReturnedKey(key) \o <<"=">> \o value >>
              ELSE <<>>)
             \o ExpectedLines(Tail(pairs), prefix)

\* The list a string vector stands for: the NULL vector is the empty list.
ListOf(l) == IF l = NULL THEN <<>> ELSE l

\* load_os_release_pairs_with_prefix() has returned.
PairsDone == Done /\ args.api = "load_os_release_pairs_with_prefix"

\* C13: when nothing fails the call succeeds, and a successful call returns
\* exactly one entry prefix+lowercase(key)=value for each source pair whose
\* key is ID, VERSION_ID, BUILD_ID or VARIANT_ID, in source order, and nothing
\* for any other key; without such a key the list is empty and the call
\* succeeds all the same.
C13_PrefixedMainFields ==
    PairsDone => /\ trace = <<>> => result = 0
                 /\ result = 0 => ListOf(caller_path) = ExpectedLines(args.pairs, args.prefix)
                 /\ (result = 0 /\ \A i \in 1..Len(args.pairs) : ReturnedKey(args.pairs[i][1]) = <<>>)
                       => ListOf(caller_path) = <<>>

\* ID=f, PRETTY_NAME=f, VERSION_ID=39 with the prefix "ID_" gave ID_id=f and
\* ID_version_id=39.
C13_Witness ==
    /\ PairsDone
    /\ result = 0
    /\ args.prefix = <<"I", "D", "_">>
    /\ args.pairs = << <<<<"I", "D">>, <<"f">>>>, <<<<"P", "R", "E", "T", "T", "Y", "_", "N", "A", "M", "E">>, <<"f">>>>, <<<<"V", "E", "R", "S", "I", "O", "N", "_", "I", "D">>, <<"3", "9">>>> >>
    /\ caller_path = << <<"I", "D", "_", "i", "d", "=", "f">>, <<"I", "D", "_", "v", "e", "r", "s", "i", "o", "n", "_", "i", "d", "=", "3", "9">> >>

(* ------------------------------------------------------------------ *)
(* os_release_support_ended(), lines 339-372                            *)
(* ------------------------------------------------------------------ *)

USEC_PER_SEC == 1000000

\* The log levels of lines 350, 362 and 367.
LOG_WARNING == "LOG_WARNING"
LOG_DEBUG == "LOG_DEBUG"

\* log_full_errno(level, error, ...) logs and evaluates to the negative
\* error; SYNTHETIC_ERRNO() marks an error that does not come from errno and
\* leaves its value as it is.
SYNTHETIC_ERRNO(e) == e
log_full_errno(level, error) == IF error < 0 THEN error ELSE -error

DigitChars == <<"0", "1", "2", "3", "4", "5", "6", "7", "8", "9">>
IsDigit(c) == \E i \in 1..Len(DigitChars) : DigitChars[i] = c
DigitVal(c) == (CHOOSE i \in 1..Len(DigitChars) : DigitChars[i] = c) - 1

\* The number of leading digits of s, at most max.
NumLen(s, max) ==
    CHOOSE n \in 0..max :
        /\ n <= Len(s)
        /\ \A i \in 1..n : IsDigit(s[i])
        /\ n = max \/ n = Len(s) \/ ~IsDigit(s[n + 1])

RECURSIVE NumVal(_, _)
\* The value of the first n characters of s, which are digits.
NumVal(s, n) == IF n = 0 THEN 0 ELSE NumVal(s, n - 1) * 10 + DigitVal(s[n])

\* The string s without its first n characters.
Skip(s, n) == SubSeq(s, n + 1, Len(s))

\* strptime(s, "%Y-%m-%d", &tm): k is the unparsed rest of s, or NULL when s
\* does not match; tm holds the fields that were parsed.
strptime(s) ==
    LET failed == [k |-> NULL, tm |-> [tm_year |-> 0, tm_mon |-> 0, tm_mday |-> 0]]
        yl == NumLen(s, 4)
        s1 == Skip(s, yl)
        ml == NumLen(Skip(s1, 1), 2)
        month == NumVal(Skip(s1, 1), ml)
        s2 == Skip(Skip(s1, 1), ml)
        dl == NumLen(Skip(s2, 1), 2)
        day == NumVal(Skip(s2, 1), dl)
    IN  IF yl = 0 \/ s1 = <<>> \/ s1[1] # "-" THEN failed
        ELSE IF ml = 0 \/ month < 1 \/ month > 12 \/ s2 = <<>> \/ s2[1] # "-" THEN failed
        ELSE IF dl = 0 \/ day < 1 \/ day > 31 THEN failed
        ELSE [k |-> Skip(Skip(s2, 1), dl),
              tm |-> [tm_year |-> NumVal(s, yl) - 1900, tm_mon |-> month - 1, tm_mday |-> day]]

\* The days from 1970-01-01 to the first day of month m (1..12) of year y, in
\* the proleptic Gregorian calendar.
DaysFromCivil(y, m) ==
    LET yy == IF m <= 2 THEN y - 1 ELSE y
        era == yy \div 400
        yoe == yy - era * 400
        doy == (153 * (IF m > 2 THEN m - 3 ELSE m + 9) + 2) \div 5
        doe == yoe * 365 + yoe \div 4 - yoe \div 100 + doy
    IN  era * 146097 + doe - 719468

\* mktime(&tm) for a local time that is utc_offset seconds ahead of UTC: the
\* seconds since the epoch of local midnight of the day.
mktime(tm, utc_offset) ==
    (DaysFromCivil(tm.tm_year + 1900, tm.tm_mon + 1) + tm.tm_mday - 1) * 86400 - utc_offset

\* DIV_ROUND_UP(ts, USEC_PER_SEC) for ts = sec * USEC_PER_SEC + usec: the
\* quotient, plus one when there is a remainder.
DIV_ROUND_UP_USEC(ts) == ts.sec + (IF ts.usec % USEC_PER_SEC # 0 THEN 1 ELSE 0)

\* (usec_t) t: the unsigned 64-bit value wrap * 2^64 + v of a signed 64-bit t.
usec_t(t) == [wrap |-> IF t < 0 THEN 1 ELSE 0, v |-> t]

\* The comparison a > b of two unsigned 64-bit values.
usec_gt(a, b) == a.wrap > b.wrap \/ (a.wrap = b.wrap /\ a.v > b.v)

\* Line 361 accepting unparsed characters after the date.
strptime_failed_TrailingOk(k) == k = NULL

\* Line 361: `!k || *k`.
strptime_failed(k) == k = NULL \/ k # <<>>

\* Line 366: `eol == (time_t) -1`.
mktime_failed(t) == t = -1

\* The values of SUPPORT_END: dates after and before the epoch, the first day
\* of the epoch, a date with trailing characters, a month that is none, and a
\* word.
ValidDates == {<<"2", "0", "0", "0", "-", "0", "1", "-", "0", "1">>, <<"2", "0", "3", "0", "-", "0", "1", "-", "0", "1">>, <<"1", "9", "6", "9", "-", "0", "6", "-", "0", "1">>, <<"1", "9", "7", "0", "-", "0", "1", "-", "0", "1">>}
MalformedDates == {<<"2", "0", "0", "0", "-", "0", "1", "-", "0", "1", "x">>, <<"2", "0", "0", "0", "-", "1", "3", "-", "0", "1">>, <<"s", "o", "o", "n">>}
SupportEndValues == ValidDates \cup MalformedDates

\* What parse_os_release(NULL, "SUPPORT_END", ...) finds: the file cannot be
\* read (it is missing, or reading fails), it holds no SUPPORT_END, or it
\* holds one of the values.
OsReleaseFiles ==
    { [r |-> e, value |-> NULL] : e \in {-ENOENT, -SysErrno.EIO} }
    \cup { [r |-> 0, value |-> NULL] }
    \cup { [r |-> 0, value |-> v] : v \in SupportEndValues }

\* The local time zones: UTC, and one second ahead of UTC.
UtcOffsets == {0, 1}

\* The readings of CLOCK_REALTIME at line 370, as seconds and microseconds:
\* around the epoch, around 2000-01-01 00:00:00 UTC, and later.
ClockReadings ==
    { [sec |-> s, usec |-> u] : s \in {0, 1, 946684798, 946684799, 946684800, 1800000000},
                                u \in {0, 1, 999999} }

\* The arguments, the os-release file, the time zone and the clock.
InitSupport ==
    /\ \E se \in {NULL} \cup SupportEndValues, quiet \in BOOLEAN, file \in OsReleaseFiles,
          off \in UtcOffsets, ts \in ClockReadings :
          /\ se # NULL => file = [r |-> 0, value |-> NULL]
          /\ args = [api |-> "os_release_support_ended", support_end |-> se, quiet |-> quiet,
                     file |-> file, utc_offset |-> off, now |-> ts]
    /\ fs = [dir |-> <<>>, files |-> {}, env |-> NULL]
    /\ pc = "idle"
    /\ r = 0
    /\ fd = 0
    /\ q = NULL
    /\ dirh = 0
    /\ pos = 0
    /\ fr = 0
    /\ p = NULL
    /\ ffd = -EBADF
    /\ caller_path = UnsetPath
    /\ caller_handle = UnsetHandle
    /\ result = NoResult
    /\ fds = {}
    /\ nextfd = 3
    /\ trace = <<>>

\* The locals of os_release_support_ended(): support_end is kept in q, tm in
\* p, eol in fr.
support_end == q
eol == fr

\* The function logs `error` at `level` and returns what log_full_errno()
\* evaluates to.
ReturnLogged(level, error) ==
    /\ result' = log_full_errno(level, error)
    /\ trace' = Append(trace, Sys("log", level, 0, error))
    /\ pc' = "done"

\* Lines 343-356: without a value from the caller, SUPPORT_END is read from
\* the os-release file.
ReadSupportEnd ==
    /\ pc = "idle"
    /\ args.api = "os_release_support_ended"
    /\ IF args.support_end # NULL
       THEN /\ q' = args.support_end
            /\ pc' = "358"
            /\ UNCHANGED <<r, result, trace>>
       ELSE /\ r' = args.file.r
            /\ IF args.file.r < 0
               THEN /\ ReturnLogged(IF args.file.r = -ENOENT \/ args.quiet
                                    THEN LOG_DEBUG ELSE LOG_WARNING, args.file.r)
                    /\ q' = q
               ELSE IF args.file.value = NULL
               THEN /\ result' = 0
                    /\ pc' = "done"
                    /\ UNCHANGED <<q, trace>>
               ELSE /\ q' = args.file.value
                    /\ pc' = "358"
                    /\ UNCHANGED <<result, trace>>
    /\ UNCHANGED <<fs, args, fd, dirh, pos, fr, p, ffd, caller_path, caller_handle, fds, nextfd>>

\* Lines 358-363: the value is parsed as a date.
ParseSupportEnd ==
    /\ pc = "358"
    /\ LET parsed == strptime(support_end)
       IN  IF strptime_failed(parsed.k)
           THEN /\ ReturnLogged(IF args.quiet THEN LOG_DEBUG ELSE LOG_WARNING,
                                SYNTHETIC_ERRNO(EINVAL))
                /\ p' = p
           ELSE /\ p' = parsed.tm
                /\ pc' = "365"
                /\ UNCHANGED <<result, trace>>
    /\ UNCHANGED <<fs, args, r, fd, q, dirh, pos, fr, ffd, caller_path, caller_handle, fds, nextfd>>

\* Lines 365-368: the date is converted to seconds since the epoch.
ConvertSupportEnd ==
    /\ pc = "365"
    /\ fr' = mktime(p, args.utc_offset)
    /\ IF mktime_failed(fr')
       THEN ReturnLogged(IF args.quiet THEN LOG_DEBUG ELSE LOG_WARNING,
                         SYNTHETIC_ERRNO(EINVAL))
       ELSE pc' = "370" /\ UNCHANGED <<result, trace>>
    /\ UNCHANGED <<fs, args, r, fd, q, dirh, pos, p, ffd, caller_path, caller_handle, fds, nextfd>>

\* Lines 370-371: the clock is read and compared with the end of support.
CompareSupportEnd ==
    /\ pc = "370"
    /\ LET ts == args.now
       IN  result' = IF usec_gt(usec_t(DIV_ROUND_UP_USEC(ts)), usec_t(eol)) THEN 1 ELSE 0
    /\ pc' = "done"
    /\ UNCHANGED <<fs, args, r, fd, q, dirh, pos, fr, p, ffd,
                   caller_path, caller_handle, fds, nextfd, trace>>

NextSupport ==
    \/ ReadSupportEnd
    \/ ParseSupportEnd
    \/ ConvertSupportEnd
    \/ CompareSupportEnd

SpecSupport == InitSupport /\ [][NextSupport]_vars

(* ------------------------------------------------------------------ *)
(* C11                                                                  *)
(* ------------------------------------------------------------------ *)

\* os_release_support_ended() has returned.
SupportDone == Done /\ args.api = "os_release_support_ended"

\* The os-release file had to be read and could not be.
ReadFailed == args.support_end = NULL /\ args.file.r < 0

\* The value of SUPPORT_END the function works on, NULL if there is none.
GivenValue ==
    IF args.support_end # NULL THEN args.support_end
    ELSE IF args.file.r < 0 THEN NULL
    ELSE args.file.value

\* The value is no date in the form YYYY-MM-DD, or has trailing characters.
ParseFails == GivenValue \in MalformedDates

\* The conversion of the date gives (time_t) -1: local midnight of
\* 1970-01-01 one second ahead of UTC.
ConvertFails == GivenValue = <<"1", "9", "7", "0", "-", "0", "1", "-", "0", "1">> /\ args.utc_offset = 1

\* The level of the one message that was logged.
LoggedAt(level) == Len(trace) = 1 /\ trace[1].op = "log" /\ trace[1].arg = level

\* C11 as stated: when the file cannot be read, the value does not parse or
\* the conversion fails, the function returns false (0).
C11_AsStated_FailureIsFalse ==
    (SupportDone /\ (ReadFailed \/ ParseFails \/ ConvertFails)) => result = 0

\* C11, amended: when the file cannot be read the function returns the
\* negative error of the read (-ENOENT for a missing file); when the value
\* does not parse as YYYY-MM-DD or has trailing characters, or when the
\* conversion fails, it returns -EINVAL.  It never returns true (a positive
\* value) in these cases; quiet selects the severity of the message only
\* (debug when quiet or when the file is missing, warning otherwise).  It
\* returns false (0) without a message when the file holds no SUPPORT_END.
C11_FailureIsNegativeErrno ==
    SupportDone =>
        /\ ReadFailed =>
              /\ result = args.file.r
              /\ LoggedAt(IF args.quiet \/ args.file.r = -ENOENT THEN LOG_DEBUG ELSE LOG_WARNING)
        /\ (ParseFails \/ ConvertFails) =>
              /\ result = -EINVAL
              /\ LoggedAt(IF args.quiet THEN LOG_DEBUG ELSE LOG_WARNING)
        /\ (ReadFailed \/ ParseFails \/ ConvertFails) => result < 0
        /\ (~ReadFailed /\ GivenValue = NULL) => (result = 0 /\ trace = <<>>)

\* A date with a trailing character was read from the file by a caller that
\* is not quiet: -EINVAL was returned and a warning logged.
C11_Witness ==
    /\ SupportDone
    /\ args.support_end = NULL
    /\ GivenValue = <<"2", "0", "0", "0", "-", "0", "1", "-", "0", "1", "x">>
    /\ ~args.quiet
    /\ result = -EINVAL
    /\ LoggedAt(LOG_WARNING)

(* ------------------------------------------------------------------ *)
(* C12                                                                  *)
(* ------------------------------------------------------------------ *)

\* The seconds from the epoch to 00:00:00 UTC of the dates of the model.
MidnightUtc(date) ==
    CASE date = <<"2", "0", "0", "0", "-", "0", "1", "-", "0", "1">> -> 946684800
      [] date = <<"2", "0", "3", "0", "-", "0", "1", "-", "0", "1">> -> 1893456000
      [] date = <<"1", "9", "6", "9", "-", "0", "6", "-", "0", "1">> -> -18489600
      [] date = <<"1", "9", "7", "0", "-", "0", "1", "-", "0", "1">> -> 0

\* The end-of-life instant: local midnight of the date.
EndOfLife == MidnightUtc(GivenValue) - args.utc_offset

\* The current time rounded up to whole seconds.
NowInSeconds == args.now.sec + (IF args.now.usec > 0 THEN 1 ELSE 0)

\* C12: for every value that parses as a date, the function returns true
\* if and only if the current time, rounded up to whole seconds, is strictly
\* greater than the end-of-life instant; also for dates before the epoch and
\* for the instant whose time_t is -1.
C12_TrueIffAfterEndOfLife ==
    (SupportDone /\ GivenValue \in ValidDates)
        => result = (IF NowInSeconds > EndOfLife THEN 1 ELSE 0)

====
